---- MODULE Spec2Model ----
(***************************************************************************)
(* Model of the service-report web application:                            *)
(*   admin_page/admin.py  technician store (add / edit / delete)           *)
(*   app.py               identifier allocator, /submit, PDF composition   *)
(* Strings are sequences of one-character strings, so that str.strip() is  *)
(* computed rather than assumed.                                           *)
(***************************************************************************)
EXTENDS Integers, Sequences, FiniteSets, TLC

\* ------------------------------------------------------------------------
\* Bounds of the model
\* ------------------------------------------------------------------------
\* number of distinct letters a technician name is drawn from
NumNames == 3
\* cap on the length of the stored technician list
MaxTech == 3

Alphabet == <<"a", "b", "c", "d", "e", "f">>
Letters == {Alphabet[i] : i \in 1..NumNames}

Range(s) == {s[i] : i \in 1..Len(s)}

\* ------------------------------------------------------------------------
\* str.strip(): remove leading and trailing whitespace
\* ------------------------------------------------------------------------
Whitespace == {" "}

RECURSIVE lstrip(_)
lstrip(s) == IF s # <<>> /\ Head(s) \in Whitespace THEN lstrip(Tail(s)) ELSE s

RECURSIVE rstrip(_)
rstrip(s) ==
    IF s # <<>> /\ s[Len(s)] \in Whitespace
    THEN rstrip(SubSeq(s, 1, Len(s) - 1))
    ELSE s

strip(s) == rstrip(lstrip(s))

\* raw text a client may send in a name field: empty, blank, a name, or a
\* name with surrounding blanks
RawNames ==
    {<<>>, <<" ">>}
        \cup {<<c>> : c \in Letters}
        \cup {<<" ", c, " ">> : c \in Letters}

Names == {<<c>> : c \in Letters}

\* ------------------------------------------------------------------------
\* State
\* ------------------------------------------------------------------------
VARIABLES
    techFile,   \* admin_page/technicians.json: [kind, technicians]
    loaded,     \* the list load_technicians() gave the request handled last
    req,        \* the request or call handled last
    resp,       \* the response to it, or what the call returned
    pc,         \* where the call or request in progress stands
    existing_numbers,   \* get_next_do_no: the sorted identifiers
    next_number,        \* get_next_do_no: the candidate identifier
    form_data,  \* submit: the collected, stripped form fields
    overlay_pdf,    \* submit: the in-memory overlay page
    scratch,    \* the files under /tmp: the two PDFs and the signature PNGs
    downloads,  \* DOWNLOADS_DIR: <identifier>_filled_SDO_report.pdf per identifier
    posts,      \* the POSTs this request sent to the sheet, with their status
    overlap     \* history: a request started while another was in progress

techVars == <<techFile, loaded>>
scanVars == <<existing_numbers, next_number>>
allocVars == <<pc, existing_numbers, next_number>>
submitVars == <<form_data, overlay_pdf, scratch, downloads, posts, overlap>>

vars ==
    <<techFile, loaded, req, resp, pc, existing_numbers, next_number,
      form_data, overlay_pdf, scratch, downloads, posts, overlap>>

\* ------------------------------------------------------------------------
\* Technician store (admin_page/admin.py)
\* ------------------------------------------------------------------------
\* the file is absent, holds a JSON object without the "technicians" key, or
\* holds {"technicians": [...]}
FileMissing == [kind |-> "missing", technicians |-> <<>>]
FileNoKey == [kind |-> "nokey", technicians |-> <<>>]

load_technicians(file) ==
    IF file.kind = "missing"
    THEN <<>>                                  \* except FileNotFoundError
    ELSE IF file.kind = "nokey"
         THEN <<>>                             \* data.get("technicians", [])
         ELSE file.technicians

save_technicians(technicians) ==
    [kind |-> "list", technicians |-> technicians]

\* the last position holding x, where list.index gives the first
last_index(L, x) == CHOOSE i \in 1..Len(L) : L[i] = x /\ \A j \in (i + 1)..Len(L) : L[j] # x

\* list.index(x): the first position holding x
index(L, x) == CHOOSE i \in 1..Len(L) : L[i] = x /\ \A j \in 1..(i - 1) : L[j] # x

\* list.remove(x): drop the first occurrence of x
remove(L, x) ==
    LET i == index(L, x)
    IN  SubSeq(L, 1, i - 1) \o SubSeq(L, i + 1, Len(L))

Redirect == [status |-> 302, error |-> "none"]
\* request.form.get(k) is None for an absent field; None.strip() raises
AttributeError == [status |-> 500, error |-> "AttributeError"]

\* request.form: a mapping from the field names sent to their raw text
Forms(fields) == UNION {[dom -> RawNames] : dom \in SUBSET fields}

\* add_technician without the membership test
add_technician_nocheck(form) ==
    LET technicians == load_technicians(techFile)
    IN  /\ loaded' = technicians
        /\ req' = [op |-> "addTechnician", form |-> form]
        /\ IF "new_technician" \notin DOMAIN form
           THEN /\ resp' = AttributeError
                /\ UNCHANGED techFile
           ELSE LET new_technician == strip(form["new_technician"])
                IN  /\ IF new_technician # <<>>
                       THEN techFile' = save_technicians(Append(technicians, new_technician))
                       ELSE UNCHANGED techFile
                    /\ resp' = Redirect

add_technician(form) ==
    LET technicians == load_technicians(techFile)
    IN  /\ loaded' = technicians
        /\ req' = [op |-> "addTechnician", form |-> form]
        /\ IF "new_technician" \notin DOMAIN form
           THEN /\ resp' = AttributeError
                /\ UNCHANGED techFile
           ELSE LET new_technician == strip(form["new_technician"])
                IN  /\ IF new_technician # <<>> /\ new_technician \notin Range(technicians)
                       THEN techFile' = save_technicians(Append(technicians, new_technician))
                       ELSE UNCHANGED techFile
                    /\ resp' = Redirect

edit_technician(form) ==
    LET technicians == load_technicians(techFile)
    IN  /\ loaded' = technicians
        /\ req' = [op |-> "editTechnician", form |-> form]
        /\ IF "old_name" \notin DOMAIN form \/ "new_name" \notin DOMAIN form
           THEN /\ resp' = AttributeError
                /\ UNCHANGED techFile
           ELSE LET old_name == strip(form["old_name"])
                    new_name == strip(form["new_name"])
                IN  /\ IF old_name \in Range(technicians) /\ new_name # <<>>
                       THEN techFile' = save_technicians(
                                [technicians EXCEPT ![index(technicians, old_name)] = new_name])
                       ELSE UNCHANGED techFile
                    /\ resp' = Redirect

delete_technician(form) ==
    LET technicians == load_technicians(techFile)
    IN  /\ loaded' = technicians
        /\ req' = [op |-> "deleteTechnician", form |-> form]
        /\ IF "name_to_delete" \notin DOMAIN form
           THEN /\ resp' = AttributeError
                /\ UNCHANGED techFile
           ELSE LET name_to_delete == strip(form["name_to_delete"])
                IN  /\ IF name_to_delete \in Range(technicians)
                       THEN techFile' = save_technicians(remove(technicians, name_to_delete))
                       ELSE UNCHANGED techFile
                    /\ resp' = Redirect

\* the stored list is capped at MaxTech names
AddTechnician ==
    \E form \in Forms({"new_technician"}) :
        /\ add_technician(form)
        /\ Len(load_technicians(techFile')) <= MaxTech
        /\ UNCHANGED <<allocVars, submitVars>>

EditTechnician ==
    /\ \E form \in Forms({"old_name", "new_name"}) : edit_technician(form)
    /\ UNCHANGED <<allocVars, submitVars>>

DeleteTechnician ==
    /\ \E form \in Forms({"name_to_delete"}) : delete_technician(form)
    /\ UNCHANGED <<allocVars, submitVars>>

NoDuplicates(L) == \A i, j \in 1..Len(L) : L[i] = L[j] => i = j

\* every list of names of length at most n
RECURSIVE ListsUpTo(_)
ListsUpTo(n) ==
    IF n = 0
    THEN {<<>>}
    ELSE LET shorter == ListsUpTo(n - 1)
         IN  shorter \cup {Append(L, x) : L \in shorter, x \in Names}

NoRequest == [op |-> "none", form |-> <<>>]
NoResponse == [status |-> 0, error |-> "none"]

AllocIdle ==
    /\ pc = "idle"
    /\ existing_numbers = <<>>
    /\ next_number = 0

\* no submission is in progress and no file has been written
SubmitIdle ==
    /\ form_data = <<>>
    /\ overlay_pdf = {}
    /\ scratch = <<>>
    /\ downloads = <<>>
    /\ posts = <<>>
    /\ overlap = FALSE

TechInit ==
    /\ AllocIdle
    /\ SubmitIdle
    /\ techFile \in {FileMissing, FileNoKey}
           \cup {save_technicians(L) : L \in {M \in ListsUpTo(MaxTech) : NoDuplicates(M)}}
    /\ loaded = <<>>
    /\ req = NoRequest
    /\ resp = NoResponse

TechNext == AddTechnician \/ EditTechnician \/ DeleteTechnician

TechSpec == TechInit /\ [][TechNext]_vars

\* ------------------------------------------------------------------------
\* Properties of the technician store
\* ------------------------------------------------------------------------
\* what GET /manageTechnician lists
manage_technician == load_technicians(techFile)

Count(L, x) == Cardinality({i \in 1..Len(L) : L[i] = x})

Field(k) == strip(req.form[k])

\* C1: after any sequence of add / edit / delete requests on a store that
\* started without duplicates, the saved list holds no name more than once.
C1_NamesUnique == NoDuplicates(manage_technician)

AddCase == req.op = "addTechnician" /\ "new_technician" \in DOMAIN req.form

\* C2: addTechnician(n) with n non-empty and not in L leaves L with n appended
\* at the end (n once, the earlier names in their order); with n empty after
\* stripping, or already in L, the list is unchanged; either way the request
\* ends with the normal redirect.
C2_AddAppends ==
    AddCase =>
        LET L == loaded
            n == Field("new_technician")
        IN  /\ resp = Redirect
            /\ IF n # <<>> /\ n \notin Range(L)
               THEN /\ Len(manage_technician) = Len(L) + 1
                    /\ SubSeq(manage_technician, 1, Len(L)) = L
                    /\ manage_technician[Len(manage_technician)] = n
                    /\ Count(manage_technician, n) = 1
               ELSE manage_technician = L

C2_Witness ==
    /\ AddCase
    /\ req.form["new_technician"] = <<" ", "a", " ">>
    /\ loaded = << <<"b">> >>
    /\ manage_technician = << <<"b">>, <<"a">> >>
    /\ resp = Redirect

EditCase == req.op = "editTechnician" /\ {"old_name", "new_name"} \subseteq DOMAIN req.form

\* the parts of C3 that do not concern the absence of old
EditReplacesFirst(L, old, new) ==
    /\ Len(manage_technician) = Len(L)
    /\ \E i \in 1..Len(L) :
           /\ L[i] = old
           /\ \A j \in 1..(i - 1) : L[j] # old
           /\ manage_technician[i] = new
           /\ \A j \in 1..Len(L) : j # i => manage_technician[j] = L[j]

\* C3 as stated: editTechnician(old, new) leaves the list unchanged if old is
\* not in L or new is empty; otherwise new stands where old first occurred,
\* every other position is unchanged, and old is absent from the result.
C3_EditOldAbsent ==
    EditCase =>
        LET L == loaded
            old == Field("old_name")
            new == Field("new_name")
        IN  IF old \notin Range(L) \/ new = <<>>
            THEN manage_technician = L
            ELSE /\ EditReplacesFirst(L, old, new)
                 /\ old \notin Range(manage_technician)

\* C3 amended: as above, but old is absent from the result exactly when new
\* differs from old and old occurred only once in L.
C3_EditReplaces ==
    EditCase =>
        LET L == loaded
            old == Field("old_name")
            new == Field("new_name")
        IN  IF old \notin Range(L) \/ new = <<>>
            THEN manage_technician = L
            ELSE /\ EditReplacesFirst(L, old, new)
                 /\ old \notin Range(manage_technician) <=> (new # old /\ Count(L, old) = 1)
                 /\ resp = Redirect

C3_Witness ==
    /\ EditCase
    /\ Field("old_name") = <<"b">>
    /\ Field("new_name") = <<"c">>
    /\ loaded = << <<"a">>, <<"b">>, <<"b">> >>
    /\ manage_technician = << <<"a">>, <<"c">>, <<"b">> >>

AbsentFieldCase ==
    \/ req.op = "addTechnician" /\ "new_technician" \notin DOMAIN req.form
    \/ req.op = "editTechnician" /\ ~({"old_name", "new_name"} \subseteq DOMAIN req.form)
    \/ req.op = "deleteTechnician" /\ "name_to_delete" \notin DOMAIN req.form

\* C9: an add / edit / delete request that omits its name field leaves the
\* stored list unchanged and completes with the normal redirect.
C9_AbsentFieldIgnored ==
    AbsentFieldCase => (manage_technician = loaded /\ resp = Redirect)

\* ------------------------------------------------------------------------
\* Identifier allocator and existence check (app.py)
\* ------------------------------------------------------------------------
\* the first identifier get_next_do_no tries
DoNoFloor == 1001
\* identifiers the remote sheet may hold: DoNoFloor - 1 .. DoNoFloor + NumberSpan - 1
NumberSpan == 4
\* cap on the length of the "numbers" list the remote service returns
MaxNumbers == 3

IdRange == (DoNoFloor - 1)..(DoNoFloor + NumberSpan - 1)

\* a JSON value inside "numbers": an integer, a float, a string or null
Item(t, n, s) == [t |-> t, n |-> n, s |-> s]
IntItem(n) == Item("int", n, <<>>)
Items ==
    {IntItem(n) : n \in IdRange}
        \cup {Item("float", DoNoFloor, <<>>),             \* 1001.5
              Item("str", 0, <<"1", "0", "0", "1">>),
              Item("str", 0, <<" ", "1", "0", "0", "2">>),
              Item("str", 0, <<"x">>),
              Item("null", 0, <<>>)}

DigitChars == <<"0", "1", "2", "3", "4", "5", "6", "7", "8", "9">>
Digits == Range(DigitChars)
DigitValue(c) == (CHOOSE i \in 1..10 : DigitChars[i] = c) - 1

RECURSIVE DecimalValue(_)
DecimalValue(ds) ==
    IF ds = <<>>
    THEN 0
    ELSE 10 * DecimalValue(SubSeq(ds, 1, Len(ds) - 1)) + DigitValue(ds[Len(ds)])

\* int(num) succeeds on an int, a float, and a string holding a decimal
\* literal with optional surrounding whitespace; int(None) raises TypeError,
\* int("x") raises ValueError
IntConverts(item) ==
    \/ item.t \in {"int", "float"}
    \/ /\ item.t = "str"
       /\ strip(item.s) # <<>>
       /\ \A i \in 1..Len(strip(item.s)) : strip(item.s)[i] \in Digits

int(item) ==
    IF item.t = "str" THEN DecimalValue(strip(item.s)) ELSE item.n

RECURSIVE ItemLists(_)
ItemLists(n) ==
    IF n = 0
    THEN {<<>>}
    ELSE LET shorter == ItemLists(n - 1)
         IN  shorter \cup {Append(L, x) : L \in shorter, x \in Items}

\* the value under "numbers": absent, a list, or some other JSON value
Numbers(kind, items) == [kind |-> kind, items |-> items]
NumbersValues ==
    {Numbers("absent", <<>>), Numbers("string", <<>>), Numbers("null", <<>>)}
        \cup {Numbers("list", L) : L \in ItemLists(MaxNumbers)}

\* a response body: not JSON at all, JSON that is no object, or an object
Body(kind, numbers, exists) == [kind |-> kind, numbers |-> numbers, exists |-> exists]
NoNumbers == Numbers("absent", <<>>)
NonObjectBodies ==
    {Body(k, NoNumbers, "absent") : k \in {"notjson", "array", "null"}}
GetAllBodies ==
    NonObjectBodies \cup {Body("object", nv, "absent") : nv \in NumbersValues}
CheckBodies ==
    NonObjectBodies
        \cup {Body("object", NoNumbers, e) : e \in {"absent", "true", "false"}}

\* what requests.get gives: a transport exception, or a response
Reply(transport, status, body) == [transport |-> transport, status |-> status, body |-> body]
TransportError == Reply("error", 0, Body("notjson", NoNumbers, "absent"))
Replies(bodies) ==
    {TransportError} \cup {Reply("ok", st, b) : st \in {200, 500}, b \in bodies}

Returned(v) == [status |-> "returned", value |-> v]
Raised(e) == [status |-> "raised", error |-> e]
\* the call has not returned yet
Pending == [status |-> "pending"]

\* list.sort() on integers: insertion sort
RECURSIVE Insert(_, _)
Insert(L, x) ==
    IF L = <<>> \/ x <= Head(L)
    THEN <<x>> \o L
    ELSE <<Head(L)>> \o Insert(Tail(L), x)

RECURSIVE sort(_)
sort(L) == IF L = <<>> THEN <<>> ELSE Insert(sort(Tail(L)), Head(L))

\* get_next_do_no up to the scan: every failure returns DoNoFloor
get_next_do_no(reply) ==
    /\ UNCHANGED req
    /\ IF reply.transport = "error"
       THEN \* except Exception
            /\ resp' = Returned(DoNoFloor)
            /\ UNCHANGED <<existing_numbers, next_number>>
       ELSE IF reply.status # 200
       THEN /\ resp' = Returned(DoNoFloor)
            /\ UNCHANGED <<existing_numbers, next_number>>
       ELSE IF reply.body.kind = "notjson"
       THEN \* response.json() raises a ValueError
            /\ resp' = Returned(DoNoFloor)
            /\ UNCHANGED <<existing_numbers, next_number>>
       ELSE IF reply.body.kind # "object"
       THEN \* .get raises AttributeError: except Exception
            /\ resp' = Returned(DoNoFloor)
            /\ UNCHANGED <<existing_numbers, next_number>>
       ELSE LET numbers ==
                    IF reply.body.numbers.kind = "absent"
                    THEN Numbers("list", <<>>)       \* .get("numbers", [])
                    ELSE reply.body.numbers
            IN  IF numbers.kind # "list"
                THEN \* raise ValueError("Expected a list in 'numbers'")
                     /\ resp' = Returned(DoNoFloor)
                     /\ UNCHANGED <<existing_numbers, next_number>>
                ELSE IF \E i \in 1..Len(numbers.items) : ~IntConverts(numbers.items[i])
                THEN \* int(num) raises ValueError or TypeError
                     /\ resp' = Returned(DoNoFloor)
                     /\ UNCHANGED <<existing_numbers, next_number>>
                ELSE /\ existing_numbers' =
                            sort([i \in 1..Len(numbers.items) |-> int(numbers.items[i])])
                     /\ next_number' = DoNoFloor
                     /\ resp' = Pending
    /\ pc' = IF resp' = Pending THEN "scan" ELSE "done"

\* one test of the while loop, without the increment that follows a hit
scan_no_increment ==
    /\ pc = "scan"
    /\ resp' = Returned(next_number)
    /\ pc' = "done"
    /\ UNCHANGED <<req, existing_numbers, next_number>>

\* one test of "while next_number in existing_numbers"
scan ==
    /\ pc = "scan"
    /\ IF next_number \in Range(existing_numbers)
       THEN /\ next_number' = next_number + 1
            /\ UNCHANGED <<req, resp, pc, existing_numbers>>
       ELSE /\ resp' = Returned(next_number)
            /\ pc' = "done"
            /\ UNCHANGED <<req, existing_numbers, next_number>>

check_number_in_google_sheets(do_no, reply) ==
    /\ pc' = "done"
    /\ UNCHANGED req
    /\ resp' =
          IF reply.transport = "error"
          THEN Returned(FALSE)            \* except RequestException
          ELSE IF reply.status # 200
          THEN Returned(FALSE)
          ELSE IF reply.body.kind = "notjson"
          THEN Returned(FALSE)            \* except ValueError
          ELSE IF reply.body.kind # "object"
          THEN Raised("AttributeError")   \* result.get on a non-object
          ELSE Returned(reply.body.exists = "true")   \* .get("exists", False)
    /\ UNCHANGED <<existing_numbers, next_number>>

GetNextDoNo ==
    /\ pc = "call"
    /\ req.op = "get_next_do_no"
    /\ get_next_do_no(req.reply)
    /\ UNCHANGED <<techVars, submitVars>>

Scan ==
    /\ scan
    /\ UNCHANGED <<techVars, submitVars>>

CheckNumber ==
    /\ pc = "call"
    /\ req.op = "check_number_in_google_sheets"
    /\ check_number_in_google_sheets(req.do_no, req.reply)
    /\ UNCHANGED <<techVars, submitVars>>

\* one call of either helper, with whatever the remote service answers
Call(op, do_no, reply) == [op |-> op, do_no |-> do_no, reply |-> reply]
Calls ==
    {Call("get_next_do_no", 0, r) : r \in Replies(GetAllBodies)}
        \cup {Call("check_number_in_google_sheets", n, r) :
                  n \in {DoNoFloor}, r \in Replies(CheckBodies)}

AllocInit ==
    /\ SubmitIdle
    /\ techFile = FileMissing
    /\ loaded = <<>>
    /\ req \in Calls
    /\ resp = Pending
    /\ pc = "call"
    /\ existing_numbers = <<>>
    /\ next_number = 0

AllocNext == GetNextDoNo \/ Scan \/ CheckNumber

\* a call is one thread of control: it keeps running until it returns
AllocSpec == AllocInit /\ [][AllocNext]_vars /\ WF_vars(AllocNext)

\* ------------------------------------------------------------------------
\* Properties of the allocator and the existence check
\* ------------------------------------------------------------------------
\* the service answered 200 with a JSON object whose "numbers" is a list
AnsweredList(reply) ==
    /\ reply.transport = "ok"
    /\ reply.status = 200
    /\ reply.body.kind = "object"
    /\ reply.body.numbers.kind = "list"

AnsweredIntegers(reply) ==
    /\ AnsweredList(reply)
    /\ \A i \in 1..Len(reply.body.numbers.items) : reply.body.numbers.items[i].t = "int"

IdentifierSet(reply) ==
    {reply.body.numbers.items[i].n : i \in 1..Len(reply.body.numbers.items)}

\* the smallest n >= DoNoFloor that is not in S
FirstGap(S) ==
    CHOOSE n \in DoNoFloor..(DoNoFloor + Cardinality(S)) :
        /\ n \notin S
        /\ \A m \in DoNoFloor..(n - 1) : m \in S

NextDoNoCase == req.op = "get_next_do_no" /\ AnsweredIntegers(req.reply)

NextDoNoIsFirstGap ==
    (NextDoNoCase /\ pc = "done") =>
        /\ resp = Returned(FirstGap(IdentifierSet(req.reply)))
        /\ resp.value = FirstGap({n \in IdentifierSet(req.reply) : n >= DoNoFloor})

\* until it returns the call can take a step, and the candidate of the scan
\* (which every step that does not return raises by one) never passes
\* DoNoFloor + the number of identifiers: at most that many steps are left
ScanTerminates ==
    (NextDoNoCase /\ pc # "done") =>
        /\ ENABLED AllocNext
        /\ pc = "scan" =>
               /\ next_number \in DoNoFloor..(DoNoFloor + Len(existing_numbers))
               /\ \A m \in DoNoFloor..(next_number - 1) : m \in Range(existing_numbers)

\* C4: on a 200 answer listing the integer identifiers S, get_next_do_no
\* returns the smallest n >= 1001 not in S, identifiers below 1001 do not
\* change the result, and the scan terminates.
C4_FirstGap == NextDoNoIsFirstGap /\ ScanTerminates

C4_Witness ==
    /\ NextDoNoCase
    /\ pc = "done"
    /\ req.reply.body.numbers.items = <<IntItem(1002), IntItem(1001), IntItem(1004)>>
    /\ resp = Returned(1003)

\* the request failed: transport exception, non-200 status, a body that is
\* not JSON, JSON that is not an object, or (for the identifier list) a
\* "numbers" that is no list or holds an item int() rejects
FailureOutcome ==
    \/ req.reply.transport = "error"
    \/ req.reply.status # 200
    \/ req.reply.body.kind # "object"
    \/ /\ req.op = "get_next_do_no"
       /\ req.reply.body.numbers.kind # "absent"
       /\ \/ req.reply.body.numbers.kind # "list"
          \/ \E i \in 1..Len(req.reply.body.numbers.items) :
                 ~IntConverts(req.reply.body.numbers.items[i])

\* C5: on every failure outcome get_next_do_no returns 1001 and
\* check_number_in_google_sheets returns False; neither raises.
C5_SafeDefault ==
    (pc = "done" /\ FailureOutcome) =>
        /\ req.op = "get_next_do_no" => resp = Returned(DoNoFloor)
        /\ req.op = "check_number_in_google_sheets" => resp = Returned(FALSE)

\* the half of C5 that concerns get_next_do_no
NextDoNoSafeDefault ==
    (pc = "done" /\ FailureOutcome /\ req.op = "get_next_do_no") =>
        resp = Returned(DoNoFloor)

\* ------------------------------------------------------------------------
\* /submit (app.py): the request and the files it works on
\* ------------------------------------------------------------------------
\* for i in range(1, 7)
NumScopes == 6
\* most scope slots a modelled request fills in
MaxScopeSlots == 1

Slots == 1..NumScopes

\* a file: absent, or present with its content
File(data) == [exists |-> TRUE, data |-> data]
NoFile == [exists |-> FALSE, data |-> {}]

\* what is drawn on a PDF page: text at a point, or an image in a rectangle
\* (src names where the pixels come from)
Text(at, text, fontsize) ==
    [kind |-> "text", at |-> at, text |-> text, fontsize |-> fontsize, src |-> "none"]
Picture(rect, src) ==
    [kind |-> "image", at |-> rect, text |-> <<>>, fontsize |-> 0, src |-> src]

\* the page of static/SDO_report_web.pdf
Template == {Picture(<<0, 0, 595, 842>>, "SDO_report_web.pdf")}

\* a PDF left by an earlier submission, whose DO No. was "Z"
EarlierPdf == File(Template \cup {Text(<<165, 132>>, <<"Z">>, 10)})
EarlierPng == File({Picture(<<0, 0, 0, 0>>, "earlier signature")})

ScratchPaths ==
    {"output_temp.pdf", "filled_SDO_report.pdf", "reported_by.png", "client_signature.png"}

Identifiers == {<<"A">>, <<"B">>}

Response(status, missing, detail, pdf) ==
    [status |-> status, missing |-> missing, detail |-> detail, pdf |-> pdf]
\* /submit has not answered yet
Unanswered == Response(0, <<>>, "none", NoFile)
ServerError(detail) == Response(500, <<>>, detail, NoFile)

\* request.form.get(key, default)
Get(form, key, default) == IF key \in DOMAIN form THEN form[key] ELSE default

required_fields_short == <<"DO No.", "Project Site", "Date">>

required_fields == <<"DO No.", "Project Site", "Date", "Technician">>

\* form_data key -> the form field it is read from (all of these stripped)
FormKey ==
    [k \in {"Project Site", "DO No.", "Date", "Technician", "Check In-Time",
            "Check Out-Time", "Task Objectives", "Materials", "Special Instructions",
            "Reported by Name", "Reported Date", "Client's Signature Name",
            "Client's Position"} |->
        CASE k = "Project Site" -> "project_site"
          [] k = "DO No." -> "do_no"
          [] k = "Date" -> "date"
          [] k = "Technician" -> "technician"
          [] k = "Check In-Time" -> "check_in_time"
          [] k = "Check Out-Time" -> "check_out_time"
          [] k = "Task Objectives" -> "task_objectives"
          [] k = "Materials" -> "materials"
          [] k = "Special Instructions" -> "special_instructions"
          [] k = "Reported by Name" -> "reported_by"
          [] k = "Reported Date" -> "date"
          [] k = "Client's Signature Name" -> "client_name"
          [] k = "Client's Position" -> "position"]

\* Step 1 of submit: collect and organize form data
collect(request) ==
    [fields |->
        [k \in DOMAIN FormKey \cup {"SDO #"} |->
            IF k = "SDO #"
            THEN Get(request.form, "sdo_no", <<"0", "0", "0", "0">>)
            ELSE strip(Get(request.form, FormKey[k], <<>>))],
     system_type |-> request.system_type,
     type |-> request.type,
     scope |->
        [i \in Slots |->
            [location |-> strip(request.scope[i].location),
             status |-> strip(request.scope[i].status),
             description |-> strip(request.scope[i].description)]]]

\* [field for field in required_fields if not form_data[field]]
missing_fields(data) == SelectSeq(required_fields, LAMBDA field : data.fields[field] = <<>>)

\* ------------------------------------------------------------------------
\* create_overlay_pdf
\* ------------------------------------------------------------------------
coordinates ==
    [k \in DOMAIN FormKey \cup {"SDO #"} |->
        CASE k = "SDO #" -> <<620, 20>>
          [] k = "Project Site" -> <<160, 113>>
          [] k = "DO No." -> <<165, 132>>
          [] k = "Technician" -> <<160, 145>>
          [] k = "Task Objectives" -> <<149, 161>>
          [] k = "Date" -> <<510, 115>>
          [] k = "Check In-Time" -> <<510, 131>>
          [] k = "Check Out-Time" -> <<510, 146>>
          [] k = "Materials" -> <<50, 690>>
          [] k = "Special Instructions" -> <<50, 750>>
          [] k = "Reported by Name" -> <<430, 744>>
          [] k = "Reported Date" -> <<430, 755>>
          [] k = "Client's Signature Name" -> <<531, 744>>
          [] k = "Client's Position" -> <<531, 755>>]

system_type_positions ==
    [k \in {"CCTV", "Door Access", "Lift Access", "Barrier Gate", "Intercom",
            "Networking", "Others"} |->
        CASE k = "CCTV" -> <<116, 169>>
          [] k = "Door Access" -> <<152, 170>>
          [] k = "Lift Access" -> <<210, 170>>
          [] k = "Barrier Gate" -> <<263, 170>>
          [] k = "Intercom" -> <<320, 170>>
          [] k = "Networking" -> <<364, 170>>
          [] k = "Others" -> <<418, 170>>]

type_positions ==
    [k \in {"Service", "Installation", "Maintenance"} |->
        CASE k = "Service" -> <<530, 53>>
          [] k = "Installation" -> <<540, 68>>
          [] k = "Maintenance" -> <<550, 81>>]

\* a "/" at (x + 2, y) for every selected tag the table knows
Checkmarks(items, positions) ==
    {Text(<<positions[item][1] + 2, positions[item][2]>>, <<"/">>, 8) :
        item \in Range(items) \cap DOMAIN positions}

\* no key of coordinates contains "Scope", so the font size is always 10
create_overlay_pdf(data) ==
    {Text(coordinates[field], data.fields[field], 10) :
        field \in {k \in DOMAIN coordinates : data.fields[k] # <<>>}}
        \cup Checkmarks(data.system_type, system_type_positions)
        \cup Checkmarks(data.type, type_positions)

\* ------------------------------------------------------------------------
\* merge_pdfs_with_images
\* ------------------------------------------------------------------------
image_positions ==
    <<<<60, 220, 190, 325>>, <<250, 220, 380, 325>>, <<430, 220, 560, 325>>,
      <<60, 435, 190, 540>>, <<250, 435, 380, 540>>, <<430, 435, 560, 540>>>>

scope_text_positions ==
    <<[location |-> <<130, 193>>, status |-> <<130, 203>>],
      [location |-> <<295, 193>>, status |-> <<295, 203>>],
      [location |-> <<475, 193>>, status |-> <<475, 203>>],
      [location |-> <<130, 404>>, status |-> <<130, 416>>],
      [location |-> <<295, 404>>, status |-> <<295, 416>>],
      [location |-> <<475, 404>>, status |-> <<475, 416>>]>>

\* the field name of slot i's upload
ImageField == <<"scope_1_image", "scope_2_image", "scope_3_image",
                "scope_4_image", "scope_5_image", "scope_6_image">>

\* what one pass of the loop body draws for slot i: everything sits inside
\* "if image_file:"
ScopeDrawing(i, files, data) ==
    IF files[i] = "none"
    THEN {}
    ELSE LET rect == image_positions[i]
             entry == data.scope[i]
         IN  {Picture(rect, ImageField[i])}
                 \cup (IF entry.description # <<>>
                       THEN {Text(<<rect[1], rect[4] + 15>>, entry.description, 8)}
                       ELSE {})
                 \cup (IF entry.location # <<>>
                       THEN {Text(scope_text_positions[i].location, entry.location, 8)}
                       ELSE {})
                 \cup (IF entry.status # <<>>
                       THEN {Text(scope_text_positions[i].status, entry.status, 8)}
                       ELSE {})

\* Image.open raises on an upload that is no image
MergeRaises(files) == \E i \in Slots : files[i] = "notimage"

\* the page template.save(output_temp_path) writes
merge_pdfs_with_images(overlay, files, data) ==
    Template \cup overlay \cup UNION {ScopeDrawing(i, files, data) : i \in Slots}

\* ------------------------------------------------------------------------
\* save_signature_image and add_signatures_to_pdf
\* ------------------------------------------------------------------------
\* a signature field: absent ("none"), a base64 PNG with or without the
\* data-URI prefix ("png", "png_uri"), or text that does not decode ("garbage")
SignatureValues == {"none", "png", "png_uri", "garbage"}

\* the PNG is written iff the string is there and decodes; otherwise the
\* function returns None and leaves the file as it was
SignatureSaved(base64_string) == base64_string \in {"png", "png_uri"}

save_signature_image(files, base64_string, filename) ==
    IF SignatureSaved(base64_string)
    THEN [files EXCEPT ![filename] = File({Picture(<<0, 0, 0, 0>>, base64_string)})]
    ELSE files

reported_by_position == <<370, 560, 480, 770>>
client_signature_position == <<460, 640, 590, 700>>

\* the scratch files once both signatures have been saved
SignaturesSaved(files, reported_by_signature, client_signature) ==
    save_signature_image(
        save_signature_image(files, reported_by_signature, "reported_by.png"),
        client_signature, "client_signature.png")

\* the pixels of a PNG file
PngSource(file) == (CHOOSE e \in file.data : TRUE).src

\* the page doc.save(output_path) writes, given the scratch files as they
\* are once the signatures have been saved
add_signatures_to_pdf(files, reported_by_signature, client_signature) ==
    files["output_temp.pdf"].data
        \cup (IF SignatureSaved(reported_by_signature)
              THEN {Picture(reported_by_position, PngSource(files["reported_by.png"]))}
              ELSE {})
        \cup (IF SignatureSaved(client_signature)
              THEN {Picture(client_signature_position,
                            PngSource(files["client_signature.png"]))}
              ELSE {})

\* ------------------------------------------------------------------------
\* submit, step by step
\* ------------------------------------------------------------------------
DoNo == form_data.fields["DO No."]

\* lines 144-175: collect the form and validate the required fields
submit_collect ==
    /\ pc = "collect"
    /\ form_data' = collect(req)
    /\ IF missing_fields(form_data') # <<>>
       THEN /\ resp' = Response(400, missing_fields(form_data'), "none", NoFile)
            /\ pc' = "done"
       ELSE /\ pc' = "overlay"
            /\ UNCHANGED resp
    /\ UNCHANGED <<req, overlay_pdf, scratch, downloads, posts>>

\* line 178: overlay_pdf = create_overlay_pdf(form_data)
submit_overlay ==
    /\ pc = "overlay"
    /\ \E raises \in BOOLEAN :
          IF raises
          THEN /\ resp' = ServerError("create_overlay_pdf")
               /\ pc' = "done"
               /\ UNCHANGED overlay_pdf
          ELSE /\ overlay_pdf' = create_overlay_pdf(form_data)
               /\ pc' = "merge"
               /\ UNCHANGED resp
    /\ UNCHANGED <<req, form_data, scratch, downloads, posts>>

\* submit_merge with the exception swallowed
submit_merge_swallow ==
    /\ pc = "merge"
    /\ \E raises \in BOOLEAN :
          IF raises \/ MergeRaises(req.files)
          THEN UNCHANGED scratch
          ELSE scratch' = [scratch EXCEPT !["output_temp.pdf"] =
                              File(merge_pdfs_with_images(overlay_pdf, req.files, form_data))]
    /\ pc' = "signatures"
    /\ UNCHANGED <<req, resp, form_data, overlay_pdf, downloads, posts>>

\* line 179: merge_pdfs_with_images(...), which writes OUTPUT_TEMP_PATH last
submit_merge ==
    /\ pc = "merge"
    /\ \E raises \in BOOLEAN :
          IF raises \/ MergeRaises(req.files)
          THEN /\ resp' = ServerError("merge_pdfs_with_images")
               /\ pc' = "done"
               /\ UNCHANGED scratch
          ELSE /\ scratch' = [scratch EXCEPT !["output_temp.pdf"] =
                                 File(merge_pdfs_with_images(overlay_pdf, req.files, form_data))]
               /\ pc' = "signatures"
               /\ UNCHANGED resp
    /\ UNCHANGED <<req, form_data, overlay_pdf, downloads, posts>>

\* lines 180-185: add_signatures_to_pdf(...): the PNGs are saved first, then
\* the merged PDF is opened, stamped and saved to OUTPUT_PATH
submit_signatures ==
    /\ pc = "signatures"
    /\ LET saved == SignaturesSaved(scratch, req.reported_by_signature, req.client_signature)
       IN  \E raises \in BOOLEAN :
              IF raises
              THEN /\ scratch' = saved
                   /\ resp' = ServerError("add_signatures_to_pdf")
                   /\ pc' = "done"
              ELSE /\ scratch' = [saved EXCEPT !["filled_SDO_report.pdf"] =
                                     File(add_signatures_to_pdf(saved,
                                              req.reported_by_signature,
                                              req.client_signature))]
                   /\ pc' = "post"
                   /\ UNCHANGED resp
    /\ UNCHANGED <<req, form_data, overlay_pdf, downloads, posts>>

\* what requests.post gives: a status, or 0 for a transport exception
PostOutcomes == {200, 500, 0}

\* submit_post without the test of the status code
submit_post_unchecked ==
    /\ pc = "post"
    /\ \E status \in PostOutcomes :
          /\ posts' = Append(posts, [sdo_id |-> DoNo, status |-> status])
          /\ IF status = 0
             THEN /\ resp' = ServerError("requests.post")
                  /\ pc' = "done"
             ELSE /\ pc' = "move"
                  /\ UNCHANGED resp
    /\ UNCHANGED <<req, form_data, overlay_pdf, scratch, downloads>>

\* lines 204-209: one POST; anything but 200 ends the request with 500
submit_post ==
    /\ pc = "post"
    /\ \E status \in PostOutcomes :
          /\ posts' = Append(posts, [sdo_id |-> DoNo, status |-> status])
          /\ IF status = 0
             THEN /\ resp' = ServerError("requests.post")
                  /\ pc' = "done"
             ELSE IF status # 200
             THEN /\ resp' = ServerError("Failed to send data to Google Sheets")
                  /\ pc' = "done"
             ELSE /\ pc' = "move"
                  /\ UNCHANGED resp
    /\ UNCHANGED <<req, form_data, overlay_pdf, scratch, downloads>>

\* lines 212-224: shutil.move(OUTPUT_PATH, pdf_path), then send_file. The
\* move may raise before anything is done, or (a copy followed by a delete
\* across file systems) after the copy
submit_move ==
    /\ pc = "move"
    /\ \E outcome \in {"moved", "raised", "copied"} :
          /\ downloads' =
                IF outcome = "raised"
                THEN downloads
                ELSE [downloads EXCEPT ![DoNo] = scratch["filled_SDO_report.pdf"]]
          /\ scratch' =
                IF outcome = "moved"
                THEN [scratch EXCEPT !["filled_SDO_report.pdf"] = NoFile]
                ELSE scratch
          /\ resp' =
                IF outcome = "moved"
                THEN Response(200, <<>>, "none", downloads'[DoNo])
                ELSE ServerError("shutil.move")
    /\ pc' = "done"
    /\ UNCHANGED <<req, form_data, overlay_pdf, posts>>

OtherVars == <<techVars, scanVars, overlap>>

SubmitCollect == submit_collect /\ UNCHANGED OtherVars
SubmitOverlay == submit_overlay /\ UNCHANGED OtherVars
SubmitMerge == submit_merge /\ UNCHANGED OtherVars
SubmitSignatures == submit_signatures /\ UNCHANGED OtherVars
SubmitPost == submit_post /\ UNCHANGED OtherVars
SubmitMove == submit_move /\ UNCHANGED OtherVars

\* ------------------------------------------------------------------------
\* The submissions modelled
\* ------------------------------------------------------------------------
EmptyEntry == [image |-> "none", location |-> <<>>, status |-> <<>>, description |-> <<>>]
ScopeTexts == {<<>>, <<" ", "t">>}
Entries ==
    [image : {"none", "image", "notimage"}, location : ScopeTexts,
     status : ScopeTexts, description : ScopeTexts]

\* the scope parts of a request in which at most MaxScopeSlots slots are
\* filled in
ScopeChoices ==
    UNION {{[i \in Slots |-> IF i \in S THEN f[i] ELSE EmptyEntry] :
               f \in [S -> Entries \ {EmptyEntry}]} :
           S \in {T \in SUBSET Slots : Cardinality(T) <= MaxScopeSlots}}

NoScope == [i \in Slots |-> EmptyEntry]

SubmitRequest(form, system_type, type, entries, reported_by_signature, client_signature) ==
    [op |-> "submit",
     form |-> form,
     system_type |-> system_type,
     type |-> type,
     scope |-> [i \in Slots |-> [location |-> entries[i].location,
                                 status |-> entries[i].status,
                                 description |-> entries[i].description]],
     files |-> [i \in Slots |-> entries[i].image],
     reported_by_signature |-> reported_by_signature,
     client_signature |-> client_signature]

RequiredKeys == {"do_no", "project_site", "date", "technician"}

\* each required field absent, blank, or filled in
RequiredForms == UNION {[dom -> {<<" ">>, <<" ", "A", " ">>}] : dom \in SUBSET RequiredKeys}

ValidForm(do_no) ==
    [k \in RequiredKeys |-> IF k = "do_no" THEN do_no ELSE <<"s">>]

FullForm ==
    [k \in RequiredKeys \cup {"sdo_no", "materials", "reported_by"} |->
        IF k = "do_no" THEN <<"B">> ELSE <<"m", " ">>]

\* requests that vary the required fields, requests that vary the tags and
\* the signatures, and requests that vary the scope slots
SubmitRequests ==
    {SubmitRequest(form, <<>>, <<>>, NoScope, "none", "none") : form \in RequiredForms}
        \cup {SubmitRequest(form, tags, <<"Service">>, NoScope, r, c) :
                 form \in {ValidForm(<<"A">>), FullForm},
                 tags \in {<<>>, <<"CCTV", "Drone">>},
                 r \in SignatureValues, c \in SignatureValues}
        \cup {SubmitRequest(ValidForm(<<"A">>), <<>>, <<>>, entries, "png", "none") :
                 entries \in ScopeChoices}

\* /tmp as an earlier submission may have left it
NoScratch == [path \in ScratchPaths |-> NoFile]
Leftovers ==
    [path \in ScratchPaths |->
        IF path \in {"reported_by.png", "client_signature.png"} THEN EarlierPng ELSE EarlierPdf]

SubmitInit ==
    /\ techFile = FileMissing
    /\ loaded = <<>>
    /\ existing_numbers = <<>>
    /\ next_number = 0
    /\ req \in SubmitRequests
    /\ resp = Unanswered
    /\ pc = "collect"
    /\ form_data = <<>>
    /\ overlay_pdf = {}
    /\ scratch \in {NoScratch, Leftovers}
    /\ downloads \in {[id \in Identifiers |-> NoFile],
                      [id \in Identifiers |-> IF id = <<"A">> THEN EarlierPdf ELSE NoFile]}
    /\ posts = <<>>
    /\ overlap = FALSE

SubmitNext ==
    \/ SubmitCollect
    \/ SubmitOverlay
    \/ SubmitMerge
    \/ SubmitSignatures
    \/ SubmitPost
    \/ SubmitMove

\* a request is one thread of control: it keeps running until it answers
SubmitSpec == SubmitInit /\ [][SubmitNext]_vars /\ WF_vars(SubmitNext)

\* ------------------------------------------------------------------------
\* Properties of /submit
\* ------------------------------------------------------------------------
\* the required fields of a request that are empty once stripped
MissingRequired(request) ==
    {field \in {"DO No.", "Project Site", "Date", "Technician"} :
        strip(Get(request.form, FormKey[field], <<>>)) = <<>>}

\* once /submit has answered, the request does nothing more
Answered == pc = "done" => ~ENABLED SubmitNext

\* C6: a /submit request with a required field (DO No., Project Site, Date,
\* Technician) empty after stripping is answered 400 with exactly the missing
\* required fields; no composition is started, nothing is pushed to the
\* sheet, and the scratch paths and the archive are untouched.
C6_MissingFields ==
    /\ [][(pc = "collect" /\ MissingRequired(req) # {}) =>
            /\ resp'.status = 400
            /\ Range(resp'.missing) = MissingRequired(req)
            /\ Len(resp'.missing) = Cardinality(MissingRequired(req))
            /\ pc' = "done"
            /\ overlay_pdf' = {}
            /\ scratch' = scratch
            /\ downloads' = downloads
            /\ posts' = <<>>]_vars
    /\ []Answered

C6_Witness ==
    /\ pc = "done"
    /\ resp.status = 400
    /\ resp.missing = <<"Technician">>
    /\ "technician" \in DOMAIN req.form
    /\ scratch = Leftovers
    /\ posts = <<>>

\* C7: a push that does not return 200 fails the submission: one POST, a 500
\* answer without a PDF, no relocation. A file of the archive is created or
\* replaced only by a submission whose push for that identifier returned 200.
C7_PushGate ==
    /\ [][/\ pc = "post" =>
               /\ posts = <<>>
               /\ Len(posts') = 1
               /\ posts'[1].sdo_id = DoNo
          /\ (pc = "post" /\ posts'[1].status # 200) =>
               /\ resp'.status = 500
               /\ resp'.pdf = NoFile
               /\ pc' = "done"
               /\ downloads' = downloads
          /\ downloads' # downloads =>
               /\ posts = <<[sdo_id |-> DoNo, status |-> 200]>>
               /\ posts' = posts
               /\ \A id \in Identifiers \ {DoNo} : downloads'[id] = downloads[id]]_vars
    /\ [](Len(posts) <= 1)
    /\ []Answered

C7_Witness ==
    /\ pc = "done"
    /\ posts = <<[sdo_id |-> <<"A">>, status |-> 500]>>
    /\ resp = ServerError("Failed to send data to Google Sheets")
    /\ downloads[<<"A">>] = EarlierPdf
    /\ scratch["filled_SDO_report.pdf"].exists

CompositionSteps == {"overlay", "merge", "signatures"}

\* the page this request composes, signatures included
ComposedPage ==
    add_signatures_to_pdf(
        [SignaturesSaved(scratch, req.reported_by_signature, req.client_signature)
            EXCEPT !["output_temp.pdf"] =
                File(merge_pdfs_with_images(create_overlay_pdf(collect(req)),
                                            req.files, collect(req)))],
        req.reported_by_signature, req.client_signature)

\* C8: a composition step that raises aborts the submission with a 500
\* answer carrying the exception detail: no PDF, no push (the push comes
\* only after the composition), the archive unchanged, and the scratch files
\* written before the failure still there.
C8_CompositionAborts ==
    /\ [][/\ (pc \in CompositionSteps /\ pc' = "done") =>
               /\ resp'.status = 500
               /\ resp'.detail \in
                     {"create_overlay_pdf", "merge_pdfs_with_images", "add_signatures_to_pdf"}
               /\ resp'.pdf = NoFile
               /\ posts = <<>> /\ posts' = <<>>
               /\ downloads' = downloads
               /\ \A path \in ScratchPaths : scratch[path].exists => scratch'[path].exists
               /\ pc = "signatures" =>
                     /\ scratch'["output_temp.pdf"] =
                           File(merge_pdfs_with_images(overlay_pdf, req.files, form_data))
                     /\ SignatureSaved(req.reported_by_signature) =>
                           PngSource(scratch'["reported_by.png"]) = req.reported_by_signature
                     /\ SignatureSaved(req.client_signature) =>
                           PngSource(scratch'["client_signature.png"]) = req.client_signature
          /\ (pc = "merge" /\ MergeRaises(req.files)) => pc' = "done"
          /\ posts' # posts =>
               /\ pc = "post"
               /\ scratch["filled_SDO_report.pdf"] = File(ComposedPage)]_vars
    /\ []Answered

C8_Witness ==
    /\ pc = "done"
    /\ resp = ServerError("add_signatures_to_pdf")
    /\ scratch["output_temp.pdf"].exists
    /\ Text(<<165, 132>>, <<"A">>, 10) \in scratch["output_temp.pdf"].data
    /\ scratch["reported_by.png"] = File({Picture(<<0, 0, 0, 0>>, "png_uri")})
    /\ ~scratch["client_signature.png"].exists
    /\ ~scratch["filled_SDO_report.pdf"].exists
    /\ posts = <<>>
    /\ \A id \in Identifiers : downloads[id] = NoFile

\* C10: for each scope slot, the location and the status text are placed at
\* the slot's anchors whenever non-empty, whether or not an image was
\* uploaded; the image is placed iff uploaded, and its description iff the
\* image was uploaded and the description is non-empty.
C10_ScopeTextIndependent ==
    pc = "signatures" =>
        LET page == scratch["output_temp.pdf"].data
        IN  \A i \in Slots :
               LET entry == form_data.scope[i]
                   rect == image_positions[i]
                   uploaded == req.files[i] # "none"
               IN  /\ entry.location # <<>> =>
                         Text(scope_text_positions[i].location, entry.location, 8) \in page
                   /\ entry.status # <<>> =>
                         Text(scope_text_positions[i].status, entry.status, 8) \in page
                   /\ uploaded <=> Picture(rect, ImageField[i]) \in page
                   /\ (uploaded /\ entry.description # <<>>) <=>
                         Text(<<rect[1], rect[4] + 15>>, entry.description, 8) \in page

\* ------------------------------------------------------------------------
\* Two admin requests served at the same time (admin_page/admin.py)
\* ------------------------------------------------------------------------
\* In the specifications of concurrent requests the variables of a request
\* (req, resp, pc, loaded, ...) hold one value per worker.
Procs == {1, 2}

\* the file as open(TECHNICIAN_FILE, "w") leaves it until json.dump has run:
\* empty, which json.load rejects
FileTruncated == [kind |-> "truncated", technicians |-> <<>>]

\* json.load raising JSONDecodeError, which load_technicians does not catch
JSONDecodeError == [status |-> 500, error |-> "JSONDecodeError"]

\* what a handler does with the list it loaded: the list to save (if it
\* saves) and its answer
Outcome(saves, technicians, response) ==
    [saves |-> saves, technicians |-> technicians, resp |-> response]

Handled(request, technicians) ==
    LET form == request.form
    IN  IF request.op = "addTechnician"
        THEN IF "new_technician" \notin DOMAIN form
             THEN Outcome(FALSE, technicians, AttributeError)
             ELSE LET new_technician == strip(form["new_technician"])
                  IN  IF new_technician # <<>> /\ new_technician \notin Range(technicians)
                      THEN Outcome(TRUE, Append(technicians, new_technician), Redirect)
                      ELSE Outcome(FALSE, technicians, Redirect)
        ELSE IF request.op = "editTechnician"
        THEN IF "old_name" \notin DOMAIN form \/ "new_name" \notin DOMAIN form
             THEN Outcome(FALSE, technicians, AttributeError)
             ELSE LET old_name == strip(form["old_name"])
                      new_name == strip(form["new_name"])
                  IN  IF old_name \in Range(technicians) /\ new_name # <<>>
                      THEN Outcome(TRUE,
                               [technicians EXCEPT ![index(technicians, old_name)] = new_name],
                               Redirect)
                      ELSE Outcome(FALSE, technicians, Redirect)
        ELSE IF "name_to_delete" \notin DOMAIN form
             THEN Outcome(FALSE, technicians, AttributeError)
             ELSE LET name_to_delete == strip(form["name_to_delete"])
                  IN  IF name_to_delete \in Range(technicians)
                      THEN Outcome(TRUE, remove(technicians, name_to_delete), Redirect)
                      ELSE Outcome(FALSE, technicians, Redirect)

\* technicians = load_technicians()
race_load(p) ==
    /\ pc[p] = "start"
    /\ IF techFile.kind = "truncated"
       THEN /\ resp' = [resp EXCEPT ![p] = JSONDecodeError]
            /\ pc' = [pc EXCEPT ![p] = "done"]
            /\ UNCHANGED loaded
       ELSE /\ loaded' = [loaded EXCEPT ![p] = load_technicians(techFile)]
            /\ pc' = [pc EXCEPT ![p] = "loaded"]
            /\ UNCHANGED resp
    /\ UNCHANGED <<techFile, req>>

\* race_open without the write: the handler forgets save_technicians
race_open_nosave(p) ==
    /\ pc[p] = "loaded"
    /\ resp' = [resp EXCEPT ![p] = Handled(req[p], loaded[p]).resp]
    /\ pc' = [pc EXCEPT ![p] = "done"]
    /\ UNCHANGED <<techFile, loaded, req>>

\* the handler's test and, if it passes, open(TECHNICIAN_FILE, "w")
race_open(p) ==
    /\ pc[p] = "loaded"
    /\ LET h == Handled(req[p], loaded[p])
       IN  IF h.saves
           THEN /\ techFile' = FileTruncated
                /\ pc' = [pc EXCEPT ![p] = "dump"]
                /\ UNCHANGED resp
           ELSE /\ resp' = [resp EXCEPT ![p] = h.resp]
                /\ pc' = [pc EXCEPT ![p] = "done"]
                /\ UNCHANGED techFile
    /\ UNCHANGED <<loaded, req>>

\* json.dump({"technicians": technicians}, file) and the redirect
race_dump(p) ==
    /\ pc[p] = "dump"
    /\ techFile' = save_technicians(Handled(req[p], loaded[p]).technicians)
    /\ resp' = [resp EXCEPT ![p] = Redirect]
    /\ pc' = [pc EXCEPT ![p] = "done"]
    /\ UNCHANGED <<loaded, req>>

RaceLoad == (\E p \in Procs : race_load(p)) /\ UNCHANGED <<scanVars, submitVars>>
RaceOpen == (\E p \in Procs : race_open(p)) /\ UNCHANGED <<scanVars, submitVars>>
RaceDump == (\E p \in Procs : race_dump(p)) /\ UNCHANGED <<scanVars, submitVars>>

AdminRequest(op, form) == [op |-> op, form |-> form]

\* the mutating requests the two workers are given
RaceRequests ==
    {AdminRequest("addTechnician", f) : f \in Forms({"new_technician"})}
        \cup {AdminRequest("deleteTechnician", [name_to_delete |-> n]) : n \in Names}
        \cup {AdminRequest("editTechnician", [old_name |-> o, new_name |-> n]) :
                 o \in Names, n \in Names}

RaceInit ==
    /\ SubmitIdle
    /\ existing_numbers = <<>>
    /\ next_number = 0
    /\ techFile \in {FileMissing}
           \cup {save_technicians(L) : L \in {M \in ListsUpTo(MaxTech) : NoDuplicates(M)}}
    /\ req \in [Procs -> RaceRequests]
    /\ resp = [p \in Procs |-> NoResponse]
    /\ pc = [p \in Procs |-> "start"]
    /\ loaded = [p \in Procs |-> <<>>]

RaceNext == RaceLoad \/ RaceOpen \/ RaceDump

\* each worker keeps running until its request is answered
RaceSpec ==
    /\ RaceInit
    /\ [][RaceNext]_vars
    /\ \A p \in Procs : WF_vars(race_load(p) \/ race_open(p) \/ race_dump(p))

\* ------------------------------------------------------------------------
\* Properties of concurrent admin requests
\* ------------------------------------------------------------------------
\* both requests have been answered with the redirect
BothRedirected == \A p \in Procs : pc[p] = "done" /\ resp[p] = Redirect

\* worker p added a name that the list it loaded did not hold
Adds(p) ==
    /\ req[p].op = "addTechnician"
    /\ "new_technician" \in DOMAIN req[p].form
    /\ Handled(req[p], loaded[p]).saves

AddedName(p) == strip(req[p].form["new_technician"])

\* two adds of different names
TwoAdds == Adds(1) /\ Adds(2) /\ AddedName(1) # AddedName(2)

\* one worker loaded the file only after the other had saved: the two
\* requests ran one after the other
RanInTurn == AddedName(1) \in Range(loaded[2]) \/ AddedName(2) \in Range(loaded[1])

\* C11: every save rewrites the whole file from the list the writer loaded,
\* so of two adds of different names that overlap only the last writer's
\* name is stored and the other add is lost, though both were answered with
\* the redirect; when the two run one after the other both names are stored.
C11_LastWriterWins ==
    /\ [][\A p \in Procs :
            (pc[p] = "dump" /\ pc'[p] = "done") =>
                manage_technician' = Handled(req[p], loaded[p]).technicians]_vars
    /\ []((BothRedirected /\ TwoAdds) =>
            IF RanInTurn
            THEN {AddedName(1), AddedName(2)} \subseteq Range(manage_technician)
            ELSE \E w \in Procs :
                    /\ manage_technician = Append(loaded[w], AddedName(w))
                    /\ \A q \in Procs \ {w} : AddedName(q) \notin Range(manage_technician))

\* the lost update: both adds were answered with the redirect, and b is not
\* in the stored list
C11_Witness ==
    /\ BothRedirected
    /\ req[1] = AdminRequest("addTechnician", [new_technician |-> <<"a">>])
    /\ req[2] = AdminRequest("addTechnician", [new_technician |-> <<" ", "b", " ">>])
    /\ loaded = [p \in Procs |-> << <<"c">> >>]
    /\ manage_technician = << <<"c">>, <<"a">> >>

\* ------------------------------------------------------------------------
\* Two /submit requests served at the same time (app.py)
\* ------------------------------------------------------------------------
\* The workers share /tmp and DOWNLOADS_DIR; req, resp, pc, form_data,
\* overlay_pdf and posts hold one value per worker.
DoNoOf(p) == form_data[p].fields["DO No."]

\* the request of worker p is between its first step and its answer
InProgress(p) == pc[p] \notin {"collect", "done"}

Others(p) == Procs \ {p}

\* lines 144-175: collect the form and validate the required fields
worker_collect(p) ==
    /\ pc[p] = "collect"
    /\ form_data' = [form_data EXCEPT ![p] = collect(req[p])]
    /\ IF missing_fields(form_data'[p]) # <<>>
       THEN /\ resp' = [resp EXCEPT ![p] =
                           Response(400, missing_fields(form_data'[p]), "none", NoFile)]
            /\ pc' = [pc EXCEPT ![p] = "done"]
            /\ UNCHANGED overlap
       ELSE /\ pc' = [pc EXCEPT ![p] = "overlay"]
            /\ overlap' = (overlap \/ \E q \in Others(p) : InProgress(q))
            /\ UNCHANGED resp
    /\ UNCHANGED <<req, overlay_pdf, scratch, downloads, posts>>

\* line 178: overlay_pdf = create_overlay_pdf(form_data)
worker_overlay(p) ==
    /\ pc[p] = "overlay"
    /\ \E raises \in BOOLEAN :
          IF raises
          THEN /\ resp' = [resp EXCEPT ![p] = ServerError("create_overlay_pdf")]
               /\ pc' = [pc EXCEPT ![p] = "done"]
               /\ UNCHANGED overlay_pdf
          ELSE /\ overlay_pdf' = [overlay_pdf EXCEPT ![p] = create_overlay_pdf(form_data[p])]
               /\ pc' = [pc EXCEPT ![p] = "merge"]
               /\ UNCHANGED resp
    /\ UNCHANGED <<req, form_data, scratch, downloads, posts, overlap>>

\* worker_merge that leaves an output_temp.pdf that is already there
worker_merge_keep(p) ==
    /\ pc[p] = "merge"
    /\ scratch' =
          IF scratch["output_temp.pdf"].exists
          THEN scratch
          ELSE [scratch EXCEPT !["output_temp.pdf"] =
                   File(merge_pdfs_with_images(overlay_pdf[p], req[p].files, form_data[p]))]
    /\ pc' = [pc EXCEPT ![p] = "signatures"]
    /\ UNCHANGED <<req, resp, form_data, overlay_pdf, downloads, posts, overlap>>

\* line 179: merge_pdfs_with_images(...), which writes OUTPUT_TEMP_PATH last
worker_merge(p) ==
    /\ pc[p] = "merge"
    /\ \E raises \in BOOLEAN :
          IF raises \/ MergeRaises(req[p].files)
          THEN /\ resp' = [resp EXCEPT ![p] = ServerError("merge_pdfs_with_images")]
               /\ pc' = [pc EXCEPT ![p] = "done"]
               /\ UNCHANGED scratch
          ELSE /\ scratch' =
                     [scratch EXCEPT !["output_temp.pdf"] =
                         File(merge_pdfs_with_images(overlay_pdf[p], req[p].files,
                                                     form_data[p]))]
               /\ pc' = [pc EXCEPT ![p] = "signatures"]
               /\ UNCHANGED resp
    /\ UNCHANGED <<req, form_data, overlay_pdf, downloads, posts, overlap>>

\* lines 386-387: the two save_signature_image calls
worker_signatures(p) ==
    /\ pc[p] = "signatures"
    /\ scratch' = SignaturesSaved(scratch, req[p].reported_by_signature,
                                  req[p].client_signature)
    /\ pc' = [pc EXCEPT ![p] = "stamp"]
    /\ UNCHANGED <<req, resp, form_data, overlay_pdf, downloads, posts, overlap>>

\* lines 393-409: open OUTPUT_TEMP_PATH, insert the PNGs, save to OUTPUT_PATH
worker_stamp(p) ==
    /\ pc[p] = "stamp"
    /\ \E raises \in BOOLEAN :
          IF raises
          THEN /\ resp' = [resp EXCEPT ![p] = ServerError("add_signatures_to_pdf")]
               /\ pc' = [pc EXCEPT ![p] = "done"]
               /\ UNCHANGED scratch
          ELSE /\ scratch' =
                     [scratch EXCEPT !["filled_SDO_report.pdf"] =
                         File(add_signatures_to_pdf(scratch, req[p].reported_by_signature,
                                                    req[p].client_signature))]
               /\ pc' = [pc EXCEPT ![p] = "post"]
               /\ UNCHANGED resp
    /\ UNCHANGED <<req, form_data, overlay_pdf, downloads, posts, overlap>>

\* lines 204-209: one POST; anything but 200 ends the request with 500
worker_post(p) ==
    /\ pc[p] = "post"
    /\ \E status \in PostOutcomes :
          /\ posts' = [posts EXCEPT ![p] =
                          Append(posts[p], [sdo_id |-> DoNoOf(p), status |-> status])]
          /\ IF status = 0
             THEN /\ resp' = [resp EXCEPT ![p] = ServerError("requests.post")]
                  /\ pc' = [pc EXCEPT ![p] = "done"]
             ELSE IF status # 200
             THEN /\ resp' = [resp EXCEPT ![p] =
                                 ServerError("Failed to send data to Google Sheets")]
                  /\ pc' = [pc EXCEPT ![p] = "done"]
             ELSE /\ pc' = [pc EXCEPT ![p] = "move"]
                  /\ UNCHANGED resp
    /\ UNCHANGED <<req, form_data, overlay_pdf, scratch, downloads, overlap>>

\* lines 212-224: shutil.move(OUTPUT_PATH, pdf_path), then send_file. With
\* OUTPUT_PATH gone the move raises FileNotFoundError
worker_move(p) ==
    /\ pc[p] = "move"
    /\ IF ~scratch["filled_SDO_report.pdf"].exists
       THEN /\ resp' = [resp EXCEPT ![p] = ServerError("FileNotFoundError")]
            /\ UNCHANGED <<scratch, downloads>>
       ELSE \E outcome \in {"moved", "raised", "copied"} :
               /\ downloads' =
                     IF outcome = "raised"
                     THEN downloads
                     ELSE [downloads EXCEPT ![DoNoOf(p)] = scratch["filled_SDO_report.pdf"]]
               /\ scratch' =
                     IF outcome = "moved"
                     THEN [scratch EXCEPT !["filled_SDO_report.pdf"] = NoFile]
                     ELSE scratch
               /\ resp' = [resp EXCEPT ![p] =
                              IF outcome = "moved"
                              THEN Response(200, <<>>, "none", downloads'[DoNoOf(p)])
                              ELSE ServerError("shutil.move")]
    /\ pc' = [pc EXCEPT ![p] = "done"]
    /\ UNCHANGED <<req, form_data, overlay_pdf, posts, overlap>>

WorkerCollect == (\E p \in Procs : worker_collect(p)) /\ UNCHANGED <<techVars, scanVars>>
WorkerOverlay ==
    (\E p \in Procs : worker_overlay(p)) /\ UNCHANGED <<techVars, scanVars>>
WorkerMerge == (\E p \in Procs : worker_merge(p)) /\ UNCHANGED <<techVars, scanVars>>
WorkerSignatures ==
    (\E p \in Procs : worker_signatures(p)) /\ UNCHANGED <<techVars, scanVars>>
WorkerStamp == (\E p \in Procs : worker_stamp(p)) /\ UNCHANGED <<techVars, scanVars>>
WorkerPost == (\E p \in Procs : worker_post(p)) /\ UNCHANGED <<techVars, scanVars>>
WorkerMove == (\E p \in Procs : worker_move(p)) /\ UNCHANGED <<techVars, scanVars>>

\* two valid submissions: one for identifier A, one for identifier B, each
\* with its own signature strings
WorkerRequests ==
    {w \in [Procs ->
              {SubmitRequest(form, <<>>, <<"Service">>, NoScope, r, c) :
                  form \in {ValidForm(<<"A">>), FullForm},
                  r \in SignatureValues \ {"garbage"},
                  c \in SignatureValues \ {"garbage"}}] :
        /\ w[1].form = ValidForm(<<"A">>)
        /\ w[1].reported_by_signature # "png_uri" /\ w[1].client_signature # "png_uri"
        /\ w[2].form = FullForm
        /\ w[2].reported_by_signature # "png" /\ w[2].client_signature # "png"}

WorkerInit ==
    /\ techFile = FileMissing
    /\ loaded = <<>>
    /\ existing_numbers = <<>>
    /\ next_number = 0
    /\ req \in WorkerRequests
    /\ resp = [p \in Procs |-> Unanswered]
    /\ pc = [p \in Procs |-> "collect"]
    /\ form_data = [p \in Procs |-> <<>>]
    /\ overlay_pdf = [p \in Procs |-> {}]
    /\ scratch \in {NoScratch, Leftovers}
    /\ downloads = [id \in Identifiers |-> NoFile]
    /\ posts = [p \in Procs |-> <<>>]
    /\ overlap = FALSE

worker(p) ==
    \/ worker_collect(p) \/ worker_overlay(p) \/ worker_merge(p) \/ worker_signatures(p)
    \/ worker_stamp(p) \/ worker_post(p) \/ worker_move(p)

WorkerNext ==
    \/ WorkerCollect
    \/ WorkerOverlay
    \/ WorkerMerge
    \/ WorkerSignatures
    \/ WorkerStamp
    \/ WorkerPost
    \/ WorkerMove

\* each worker keeps running until its request is answered
WorkerSpec ==
    /\ WorkerInit
    /\ [][WorkerNext]_vars
    /\ \A p \in Procs : WF_vars(worker(p))

\* ------------------------------------------------------------------------
\* Properties of concurrent submissions
\* ------------------------------------------------------------------------
\* the page composed from the submission of worker p and from nothing else
OwnPage(p) ==
    LET data == collect(req[p])
        merged == File(merge_pdfs_with_images(create_overlay_pdf(data), req[p].files, data))
        files == SignaturesSaved([NoScratch EXCEPT !["output_temp.pdf"] = merged],
                                 req[p].reported_by_signature, req[p].client_signature)
    IN  File(add_signatures_to_pdf(files, req[p].reported_by_signature,
                                   req[p].client_signature))

\* worker p archived its PDF and sent it back
Archived(p) == pc[p] = "done" /\ resp[p].status = 200

\* the relocation of the scratch PDF failed for worker p: the file was gone
MoveFailed(p) == pc[p] = "done" /\ resp[p] = ServerError("FileNotFoundError")

\* the text create_overlay_pdf draws for the identifier id
DoNoText(id) == Text(coordinates["DO No."], id, 10)

\* C12: the scratch files have fixed names shared by all requests, so two
\* submissions that overlap can archive under A a page composed from B's
\* submission, or find the scratch PDF already moved; when the two run one
\* after the other, each archived PDF is the page composed from its own
\* submission alone and no relocation finds the scratch PDF gone.
C12_SharedScratch ==
    \A p \in Procs :
          /\ (Archived(p) /\ ~overlap) =>
                /\ downloads[DoNoOf(p)] = OwnPage(p)
                /\ resp[p].pdf = OwnPage(p)
          /\ MoveFailed(p) => overlap

\* A's archived PDF shows B's identifier and B's relocation found the
\* scratch PDF gone
C12_Witness ==
    /\ Archived(1)
    /\ DoNoOf(1) = <<"A">>
    /\ DoNoText(<<"B">>) \in downloads[<<"A">>].data
    /\ DoNoText(<<"A">>) \notin downloads[<<"A">>].data
    /\ MoveFailed(2)

\* the two submissions ran one after the other and both were archived
C12_InTurn == ~overlap /\ Archived(1) /\ Archived(2)

====
